---- MODULE Spec2Model ----
(***************************************************************************)
(* sconsify: the keyboard command dispatcher (ui/cui.go, package simple),  *)
(* the next-track selection of the console UI (ui/cui.go, package ui) and  *)
(* the backend event loop (spotify/spotify.go), connected by the event     *)
(* bus.                                                                    *)
(***************************************************************************)
EXTENDS Integers, Sequences, FiniteSets, TLC

\* ------------------------------------------------------------------------
\* Bounds of the model
\* ------------------------------------------------------------------------

\* largest number of digit keys typed in front of one command
MaxDigits == 2

\* largest number of tracks held by the play queue in the model
MaxQueue == 2

\* largest number of Shutdown signals the backend handles in one behaviour
MaxShutdowns == 2

\* ------------------------------------------------------------------------
\* Views, commands and handlers
\* ------------------------------------------------------------------------

VIEW_PLAYLISTS == "side"
VIEW_TRACKS == "main"
VIEW_QUEUE == "queue"
VIEW_STATUS == "status"

CommandViews == {VIEW_TRACKS, VIEW_PLAYLISTS, VIEW_QUEUE}
Views == CommandViews \cup {VIEW_STATUS}

PauseTrack == "PauseTrack"
ShuffleMode == "ShuffleMode"
ShuffleAllMode == "ShuffleAllMode"
NextTrack == "NextTrack"
ReplayTrack == "ReplayTrack"
Search == "Search"
Quit == "Quit"
QueueTrack == "QueueTrack"
QueuePlaylist == "QueuePlaylist"
RepeatPlayingTrack == "RepeatPlayingTrack"
RemoveTrack == "RemoveTrack"
RemoveAllTracks == "RemoveAllTracks"
GoToFirstLine == "GoToFirstLine"
GoToLastLine == "GoToLastLine"
PlaySelectedTrack == "PlaySelectedTrack"
Up == "Up"
Down == "Down"
Left == "Left"
Right == "Right"
OpenCloseFolder == "OpenCloseFolder"
ArtistAlbums == "ArtistAlbums"
CreatePlaylist == "CreatePlaylist"

\* a nil keyHandler
NoHandler == "nil"

\* ------------------------------------------------------------------------
\* The key binding table: Keyboard.addKey, defaultValues, configureKey,
\* keybindings.  A key is the sequence of its characters; the tokens
\* <enter>, <space>, <up>, <down>, <left>, <right> are one element.
\* ------------------------------------------------------------------------

\* the user's key-mapping file, as the list of its KeyEntry records
UserKeys == << >>

\* key-mapping files: none; NextTrack moved to a free key; NextTrack moved
\* to the default key of PauseTrack; PauseTrack moved to the default key of
\* Quit; Quit moved to the default key of QueueTrack and QueuePlaylist;
\* NextTrack moved to a free key and its default key given to PauseTrack
UserFiles ==
  { UserKeys,
    <<[Key |-> <<"x">>, Command |-> NextTrack]>>,
    <<[Key |-> <<"p">>, Command |-> NextTrack]>>,
    <<[Key |-> <<"q">>, Command |-> PauseTrack]>>,
    <<[Key |-> <<"u">>, Command |-> Quit]>>,
    <<[Key |-> <<"x">>, Command |-> NextTrack],
      [Key |-> <<">">>, Command |-> PauseTrack]>> }

\* Keyboard.defaultValues: each entry is one `if !UsedFunctions[c]` block
DefaultKeys ==
  << [command |-> PauseTrack, keys |-> << <<"p">> >>],
     [command |-> ShuffleMode, keys |-> << <<"s">> >>],
     [command |-> ShuffleAllMode, keys |-> << <<"S">> >>],
     [command |-> NextTrack, keys |-> << <<">">> >>],
     [command |-> ReplayTrack, keys |-> << <<"<">> >>],
     [command |-> Search, keys |-> << <<"/">> >>],
     [command |-> Quit, keys |-> << <<"q">> >>],
     [command |-> QueueTrack, keys |-> << <<"u">> >>],
     [command |-> QueuePlaylist, keys |-> << <<"u">> >>],
     [command |-> RepeatPlayingTrack, keys |-> << <<"r">> >>],
     [command |-> RemoveTrack, keys |-> << <<"d", "d">> >>],
     [command |-> RemoveAllTracks, keys |-> << <<"D">> >>],
     [command |-> GoToFirstLine, keys |-> << <<"g", "g">> >>],
     [command |-> GoToLastLine, keys |-> << <<"G">> >>],
     [command |-> PlaySelectedTrack, keys |-> << <<"<space>">>, <<"<enter>">> >>],
     [command |-> Up, keys |-> << <<"<up>">>, <<"k">> >>],
     [command |-> Down, keys |-> << <<"<down>">>, <<"j">> >>],
     [command |-> Left, keys |-> << <<"<left>">>, <<"h">> >>],
     [command |-> Right, keys |-> << <<"<right>">>, <<"l">> >>],
     [command |-> OpenCloseFolder, keys |-> << <<"<space>">> >>],
     [command |-> ArtistAlbums, keys |-> << <<"i">> >>],
     [command |-> CreatePlaylist, keys |-> << <<"c">> >>] >>

\* the keys that can be configured: those of the defaults and of the user
KeyNames ==
  UNION {{DefaultKeys[i].keys[j] : j \in 1..Len(DefaultKeys[i].keys)} :
           i \in 1..Len(DefaultKeys)}
    \cup UNION {{file[i].Key : i \in 1..Len(file)} : file \in UserFiles}

\* the Keyboard after make(): no configured key, no used function
NewKeyboard ==
  [ConfiguredKeys |-> [k \in KeyNames |-> << >>], UsedFunctions |-> {}]

\* Keyboard.addKey
addKey(kb, key, command) ==
  [ConfiguredKeys |->
     [kb.ConfiguredKeys EXCEPT ![key] = Append(@, command)],
   UsedFunctions |-> kb.UsedFunctions \cup {command}]

RECURSIVE addKeys(_, _, _)
addKeys(kb, keys, command) ==
  IF keys = << >> THEN kb
  ELSE addKeys(addKey(kb, Head(keys), command), Tail(keys), command)

\* Keyboard.loadKeyFunctions: addKey for every entry of the file, in order
RECURSIVE loadKeyFunctions(_, _)
loadKeyFunctions(kb, entries) ==
  IF entries = << >> THEN kb
  ELSE loadKeyFunctions(addKey(kb, Head(entries).Key, Head(entries).Command),
                        Tail(entries))

\* Keyboard.defaultValues that adds the keys of every block
RECURSIVE defaultValuesAlways(_, _)
defaultValuesAlways(kb, blocks) ==
  IF blocks = << >> THEN kb
  ELSE defaultValuesAlways(
         addKeys(kb, Head(blocks).keys, Head(blocks).command),
         Tail(blocks))

\* Keyboard.defaultValues: a block adds its keys unless the command is used
RECURSIVE defaultValues(_, _)
defaultValues(kb, blocks) ==
  IF blocks = << >> THEN kb
  ELSE defaultValues(
         IF Head(blocks).command \in kb.UsedFunctions THEN kb
         ELSE addKeys(kb, Head(blocks).keys, Head(blocks).command),
         Tail(blocks))

\* the switch of configureKey: a token becomes the one rune of its gocui key
KeyRunes(key) ==
  CASE key = <<"<enter>">> -> <<"enter">>
    [] key = <<"<space>">> -> <<"space">>
    [] key = <<"<up>">> -> <<"up">>
    [] key = <<"<down>">> -> <<"down">>
    [] key = <<"<left>">> -> <<"left">>
    [] key = <<"<right>">> -> <<"right">>
    [] OTHER -> key

\* the key combinations SequentialKeys can be asked for
Combinations == {KeyRunes(k) : k \in KeyNames}

\* Keyboard.configureKey: view "" stands for the three command views
configureKey(sk, kb, handler, command, view) ==
  LET bound == {KeyRunes(k) : k \in
                  {k \in KeyNames :
                     \E i \in 1..Len(kb.ConfiguredKeys[k]) :
                        kb.ConfiguredKeys[k][i] = command}}
      views == IF view = "" THEN CommandViews ELSE {view}
  IN  [e \in DOMAIN sk |->
         IF e[1] \in views /\ e[2] \in bound THEN handler ELSE sk[e]]

\* the configureKey calls of keybindings(), in the order they are made
PerViewConfiguration ==
  << <<"pauseTrackCommand", PauseTrack>>,
     <<"setShuffleMode", ShuffleMode>>,
     <<"setShuffleAllMode", ShuffleAllMode>>,
     <<"nextTrackCommand", NextTrack>>,
     <<"replayTrackCommand", ReplayTrack>>,
     <<"enableSearchInputCommand", Search>>,
     <<"repeatPlayingTrackCommand", RepeatPlayingTrack>>,
     <<"quit", Quit>>,
     <<"goToFirstLineCommand", GoToFirstLine>>,
     <<"goToLastLineCommand", GoToLastLine>>,
     <<"cursorUp", Up>>,
     <<"cursorDown", Down>>,
     <<"removeTrackCommand", RemoveTrack>>,
     <<"removeAllTracksCommand", RemoveAllTracks>> >>

ViewOrder == <<VIEW_TRACKS, VIEW_PLAYLISTS, VIEW_QUEUE>>

SingleViewConfiguration ==
  << <<"queueTrackCommand", QueueTrack, VIEW_TRACKS>>,
     <<"queuePlaylistCommand", QueuePlaylist, VIEW_PLAYLISTS>>,
     <<"playSelectedTrack", PlaySelectedTrack, VIEW_TRACKS>>,
     <<"mainNextViewLeft", Left, VIEW_TRACKS>>,
     <<"nextView", Left, VIEW_QUEUE>>,
     <<"nextView", Right, VIEW_PLAYLISTS>>,
     <<"mainNextViewRight", Right, VIEW_TRACKS>>,
     <<"openCloseFolderCommand", OpenCloseFolder, VIEW_PLAYLISTS>>,
     <<"artistAlbums", ArtistAlbums, VIEW_TRACKS>>,
     <<"enableCreatePlaylistCommand", CreatePlaylist, VIEW_QUEUE>> >>

ConfigurationCalls ==
  LET n == Len(PerViewConfiguration)
      perView == [i \in 1..(3 * n) |->
                    LET v == ViewOrder[((i - 1) \div n) + 1]
                        c == PerViewConfiguration[((i - 1) % n) + 1]
                    IN  <<c[1], c[2], v>>]
  IN  perView \o SingleViewConfiguration

\* the configureKey calls made last first, so that an earlier call of
\* keybindings() overwrites a later one
RECURSIVE configureKeysLastFirst(_, _, _)
configureKeysLastFirst(sk, kb, calls) ==
  IF calls = << >> THEN sk
  ELSE LET call == calls[Len(calls)]
       IN  configureKeysLastFirst(
             configureKey(sk, kb, call[1], call[2], call[3]),
             kb, SubSeq(calls, 1, Len(calls) - 1))

RECURSIVE configureKeys(_, _, _)
configureKeys(sk, kb, calls) ==
  IF calls = << >> THEN sk
  ELSE configureKeys(
         configureKey(sk, kb, Head(calls)[1], Head(calls)[2], Head(calls)[3]),
         kb, Tail(calls))

\* keybindings(): the SequentialKeys table, from (view, combination) to the
\* handler, NoHandler where the Go map has no entry; entries is the content
\* of the key-mapping file
keybindings(entries) ==
  LET kb == defaultValues(loadKeyFunctions(NewKeyboard, entries), DefaultKeys)
  IN  configureKeys([e \in CommandViews \X Combinations |-> NoHandler],
                    kb, ConfigurationCalls)

\* ------------------------------------------------------------------------
\* Tracks, playlists and signals
\* ------------------------------------------------------------------------

\* t1 and t2 are available for playback, t3 is not; NoTrack is a nil *Track
Tracks == {"t1", "t2", "t3"}
NoTrack == "nil"
Availability(track) == IF track = "t3" THEN "unavailable" ELSE "available"

\* the Playlist Collection the backend delivers at startup: B has no track
InitialPlaylists == [A |-> <<"t1", "t3">>, B |-> << >>]
PlaylistNames == DOMAIN InitialPlaylists
NoPlaylist == ""

Sequential == "sequential"
Random == "random"
AllRandom == "allRandom"

\* capacity of every conduit of the event bus
ChanCap == 1

Channels == {"toPlay", "nextPlay", "pause", "status", "shutdown",
             "playTokenLost", "search", "playlists"}

\* the runes the user may type in the command views, and the digit keys
Runes == {"d", "u", "q", "x"}

\* the runes typed while the status view is explored
TypingRunes == {"/", "u"}

\* what the status line holds when Enter is typed: nothing, or a query
Queries == {"", "query"}
Digits == {0, 1, 3}

\* the runes typed while the bus and the backend are explored
BusRunes == {"p", "q", "space"}

\* the runes typed while the queue is explored
QueueRunes == {"space", "u", "r", ">"}

\* the runes typed while the next-track selection is explored
NextRunes == {"space", ">", "d", "s", "S"}

\* ------------------------------------------------------------------------
\* State
\* ------------------------------------------------------------------------

VARIABLES
  keyFunctions,        \* the content of the key-mapping file
  keyboard,            \* keyboard.SequentialKeys, built by keybindings()
  multipleKeysBuffer,  \* the key buffer
  multipleKeysNumber,  \* the Repeat Counter
  view,                \* name of the current view
  actionBeingExecuted, \* what the Enter key of the status view executes
  stroke,              \* the last keyPressed call: its key, the handlers
                       \* it called and what each one found
  digits,              \* the digits typed since the Repeat Counter was 0
  queue,               \* the play queue, front first
  playlists,           \* playlist name -> its tracks
  mode,                \* Sequential, Random or AllRandom
  currentPlaylist,     \* state.currentPlaylist
  currentIndexTrack,   \* state.currentIndexTrack
  guiCurrentTrack,     \* gui.currentTrack
  selected,            \* the highlighted playlist, track line and queue line
  main,                \* the UI main loop (gocui MainLoop), running handlers
  uiLoop,              \* the UI signal loop goroutine
  bus,                 \* the conduits of the event bus, oldest signal first
  spotify,             \* the backend: currentTrack, paused and its loop
  device,              \* the player of the session: what it outputs
  timer,               \* the goroutine the login wait starts: "none",
                       \* "sleeping", "blocked" in its send, or "done"
  process              \* "running", or how the process ended

vars == <<keyFunctions, keyboard, multipleKeysBuffer, multipleKeysNumber,
          view, actionBeingExecuted, stroke, digits,
          queue, playlists, mode, currentPlaylist, currentIndexTrack,
          guiCurrentTrack, selected, main, uiLoop, bus, spotify, device,
          timer, process>>

keyVars == <<keyFunctions, keyboard, multipleKeysBuffer, multipleKeysNumber,
            view, actionBeingExecuted, stroke, digits>>
uiVars == <<queue, playlists, mode, currentPlaylist, currentIndexTrack,
            guiCurrentTrack, selected>>

\* ------------------------------------------------------------------------
\* The event bus: a send waits for room in the conduit
\* ------------------------------------------------------------------------

EmptyBus == [c \in Channels |-> << >>]

CanSend(ch) == Len(bus[ch]) < ChanCap
Send(ch, value) == [bus EXCEPT ![ch] = Append(@, value)]
CanReceive(ch) == bus[ch] # << >>
Receive(ch) == [bus EXCEPT ![ch] = Tail(@)]

\* ------------------------------------------------------------------------
\* The play queue and the playlists
\* ------------------------------------------------------------------------

RemoveAt(s, i) == SubSeq(s, 1, i - 1) \o SubSeq(s, i + 1, Len(s))

\* Queue.Add that accepts a track whatever the length of the queue
QueueAddUnbounded(q, track) == Append(q, track)

\* Queue.Add: appends unless the queue is at its maximum capacity
QueueAdd(q, track) == IF Len(q) >= MaxQueue THEN q ELSE Append(q, track)

\* n times Queue.Add; once an Add is rejected the others are as well
RECURSIVE QueueAddTimes(_, _, _)
QueueAddTimes(q, track, n) ==
  IF n = 0 \/ QueueAdd(q, track) = q THEN q
  ELSE QueueAddTimes(QueueAdd(q, track), track, n - 1)

\* Queue.Insert that puts the track behind the others
QueueInsertAtBack(q, track) == Append(q, track)

\* Queue.Insert: pushes the track to the front
QueueInsert(q, track) == <<track>> \o q

\* n times Queue.Insert
RECURSIVE QueueInsertTimes(_, _, _)
QueueInsertTimes(q, track, n) ==
  IF n = 0 THEN q ELSE QueueInsertTimes(QueueInsert(q, track), track, n - 1)

\* Queue.Remove(index), index counted from 0: an invalid index is an error
QueueRemove(q, index) ==
  IF index >= 0 /\ index < Len(q) THEN RemoveAt(q, index + 1) ELSE q

\* n times Queue.Remove; once a Remove fails the others do as well
RECURSIVE QueueRemoveTimes(_, _, _)
QueueRemoveTimes(q, index, n) ==
  IF n = 0 \/ QueueRemove(q, index) = q THEN q
  ELSE QueueRemoveTimes(QueueRemove(q, index), index, n - 1)

\* Playlist.RemoveTrack(index), index counted from 0
RemoveTrackAt(tracks, index) ==
  IF index >= 0 /\ index < Len(tracks) THEN RemoveAt(tracks, index + 1)
  ELSE tracks

\* n times Playlist.RemoveTrack; once the index is past the end the other
\* calls change nothing
RECURSIVE RemoveTrackTimes(_, _, _)
RemoveTrackTimes(tracks, index, n) ==
  IF n = 0 \/ RemoveTrackAt(tracks, index) = tracks THEN tracks
  ELSE RemoveTrackTimes(RemoveTrackAt(tracks, index), index, n - 1)

\* getOffsetFromTypedNumbers: the effective repeat count, 1 without digits
getOffsetFromTypedNumbers(number) == IF number > 1 THEN number ELSE 1

\* gui.getSelectedPlaylistAndTrack: the highlighted playlist and the index
\* of the highlighted track, (NoPlaylist, -1) when there is none
getSelectedPlaylistAndTrack ==
  IF selected.playlist \in DOMAIN playlists
       /\ selected.track < Len(playlists[selected.playlist])
  THEN <<selected.playlist, selected.track>>
  ELSE <<NoPlaylist, -1>>

\* ------------------------------------------------------------------------
\* Next-track selection (package ui): playNext and what it calls
\* ------------------------------------------------------------------------

Tracks_(name) == Len(playlists[name])

\* getNextTrack that does not wrap at the end of the playlist
getNextTrackNoWrap(name) == currentIndexTrack + 1

\* getNextTrack
getNextTrack(name) ==
  IF currentIndexTrack >= Tracks_(name) - 1 THEN 0 ELSE currentIndexTrack + 1

\* rand.Intn(n): every value of 0..n-1; it panics when n is 0
Intn(n) == 0..(n - 1)

\* state.hasPlaylistSelected
hasPlaylistSelected == currentPlaylist # NoPlaylist

\* playNextFromPlaylist: the outcomes it can have, one per random draw.
\* A panic is a draw from an empty range, a nil playlist or a track index
\* outside the playlist.
playNextFromPlaylist ==
  IF mode = AllRandom
  THEN IF DOMAIN playlists = {} THEN {[panic |-> TRUE]}
       ELSE UNION {IF Tracks_(name) = 0 THEN {[panic |-> TRUE]}
                   ELSE {[panic |-> FALSE, playlist |-> name, index |-> i,
                          track |-> playlists[name][i + 1]] :
                           i \in Intn(Tracks_(name))} :
                     name \in DOMAIN playlists}
  ELSE IF currentPlaylist \notin DOMAIN playlists THEN {[panic |-> TRUE]}
  ELSE IF mode = Random
  THEN IF Tracks_(currentPlaylist) = 0 THEN {[panic |-> TRUE]}
       ELSE {[panic |-> FALSE, playlist |-> currentPlaylist, index |-> i,
              track |-> playlists[currentPlaylist][i + 1]] :
               i \in Intn(Tracks_(currentPlaylist))}
  ELSE LET i == getNextTrack(currentPlaylist)
       IN  IF i >= Tracks_(currentPlaylist) THEN {[panic |-> TRUE]}
           ELSE {[panic |-> FALSE, playlist |-> currentPlaylist, index |-> i,
                  track |-> playlists[currentPlaylist][i + 1]]}

\* Queue.Pop: the front element, NoTrack from an empty queue
QueuePop(q) == IF q = << >> THEN NoTrack ELSE Head(q)
QueueRest(q) == IF q = << >> THEN q ELSE Tail(q)

\* ------------------------------------------------------------------------
\* The command handlers, run by the UI main loop.  A handler that publishes
\* a signal leaves the main loop in the send; keyPressed resets the Repeat
\* Counter when the handler has returned.
\* ------------------------------------------------------------------------

Idle == [pc |-> "idle"]

\* the handler returns without publishing: the main loop is idle again
Returns ==
  /\ main' = Idle
  /\ process' = process
  /\ UNCHANGED <<view, actionBeingExecuted>>

\* the handler publishes value on ch and returns when the send is done
Publishes(ch, value, handler) ==
  /\ main' = [pc |-> "send", ch |-> ch, value |-> value, handler |-> handler]
  /\ process' = process
  /\ UNCHANGED <<view, actionBeingExecuted>>

Panics ==
  /\ main' = main
  /\ process' = "panic"
  /\ UNCHANGED <<view, actionBeingExecuted>>

pauseTrackCommand(typed) ==
  /\ Publishes("pause", TRUE, "pauseTrackCommand")
  /\ UNCHANGED uiVars

\* playSelectedTrack: the cursor moves to the highlighted track, which is
\* sent to Play (getCurrentSelectedTrack, gui.play)
playSelectedTrack(typed) ==
  LET sel == getSelectedPlaylistAndTrack
  IN  IF sel[1] = NoPlaylist
      THEN Returns /\ UNCHANGED uiVars
      ELSE LET track == playlists[sel[1]][sel[2] + 1]
           IN  /\ currentPlaylist' = sel[1]
               /\ currentIndexTrack' = sel[2]
               /\ guiCurrentTrack' = track
               /\ Publishes("toPlay", track, "playSelectedTrack")
               /\ UNCHANGED <<queue, playlists, mode, selected>>

\* nextTrackCommand: gui.playNext() on the main loop
nextTrackCommand(typed) ==
  IF queue # << >>
  THEN /\ guiCurrentTrack' = QueuePop(queue)
       /\ queue' = QueueRest(queue)
       /\ Publishes("toPlay", QueuePop(queue), "nextTrackCommand")
       /\ UNCHANGED <<playlists, mode, currentPlaylist, currentIndexTrack,
                      selected>>
  ELSE IF hasPlaylistSelected
  THEN \E o \in playNextFromPlaylist :
         IF o.panic
         THEN Panics /\ UNCHANGED uiVars
         ELSE /\ currentPlaylist' = o.playlist
              /\ currentIndexTrack' = o.index
              /\ guiCurrentTrack' = o.track
              /\ Publishes("toPlay", o.track, "nextTrackCommand")
              /\ UNCHANGED <<queue, playlists, mode, selected>>
  ELSE Returns /\ UNCHANGED uiVars

\* quit: publishes Shutdown and returns ErrQuit, which ends the main loop
quit(typed) ==
  /\ Publishes("shutdown", TRUE, "quit")
  /\ UNCHANGED uiVars

queueTrackCommand(typed) ==
  LET sel == getSelectedPlaylistAndTrack
  IN  /\ queue' = IF sel[1] = NoPlaylist THEN queue
                  ELSE QueueAddTimes(queue, playlists[sel[1]][sel[2] + 1],
                                     getOffsetFromTypedNumbers(typed))
      /\ Returns
      /\ UNCHANGED <<playlists, mode, currentPlaylist, currentIndexTrack,
                     guiCurrentTrack, selected>>

\* the inner loop of queuePlaylistCommand: ok is FALSE once an Add failed
RECURSIVE AddTracks(_, _)
AddTracks(q, tracks) ==
  IF tracks = << >> THEN [queue |-> q, ok |-> TRUE]
  ELSE IF QueueAdd(q, Head(tracks)) = q THEN [queue |-> q, ok |-> FALSE]
  ELSE AddTracks(QueueAdd(q, Head(tracks)), Tail(tracks))

RECURSIVE AddPlaylistTimes(_, _, _)
AddPlaylistTimes(q, tracks, n) ==
  IF n = 0 \/ tracks = << >> THEN q
  ELSE LET r == AddTracks(q, tracks)
       IN  IF r.ok THEN AddPlaylistTimes(r.queue, tracks, n - 1) ELSE r.queue

queuePlaylistCommand(typed) ==
  LET sel == getSelectedPlaylistAndTrack
  IN  /\ queue' = IF sel[1] = NoPlaylist THEN queue
                  ELSE AddPlaylistTimes(queue, playlists[sel[1]],
                                        getOffsetFromTypedNumbers(typed))
      /\ Returns
      /\ UNCHANGED <<playlists, mode, currentPlaylist, currentIndexTrack,
                     guiCurrentTrack, selected>>

removeTrackCommand(typed) ==
  /\ Returns
  /\ CASE view = VIEW_PLAYLISTS ->
            /\ playlists' =
                 IF selected.playlist \in DOMAIN playlists
                 THEN [n \in DOMAIN playlists \ {selected.playlist} |->
                         playlists[n]]
                 ELSE playlists
            /\ queue' = queue
       [] view = VIEW_TRACKS ->
            LET sel == getSelectedPlaylistAndTrack
            IN  /\ playlists' =
                     IF sel[2] > -1
                     THEN [playlists EXCEPT ![sel[1]] =
                             RemoveTrackTimes(@, sel[2],
                                              getOffsetFromTypedNumbers(typed))]
                     ELSE playlists
                /\ queue' = queue
       [] view = VIEW_QUEUE ->
            /\ queue' =
                 IF selected.queue < Len(queue)
                 THEN QueueRemoveTimes(queue, selected.queue,
                                       getOffsetFromTypedNumbers(typed))
                 ELSE queue
            /\ playlists' = playlists
  /\ UNCHANGED <<mode, currentPlaylist, currentIndexTrack, guiCurrentTrack,
                 selected>>

\* openCloseFolderCommand: no playlist of the collection is a folder
openCloseFolderCommand(typed) ==
  /\ Returns
  /\ UNCHANGED uiVars

\* gui.PlayingTrack: the track the UI last sent to Play
PlayingTrack == guiCurrentTrack

repeatPlayingTrackCommand(typed) ==
  /\ queue' = IF PlayingTrack # NoTrack
              THEN QueueInsertTimes(queue, PlayingTrack,
                                    getOffsetFromTypedNumbers(typed))
              ELSE queue
  /\ Returns
  /\ UNCHANGED <<playlists, mode, currentPlaylist, currentIndexTrack,
                 guiCurrentTrack, selected>>

\* playlists.InvertMode that switches every mode off when one is active
InvertModeSwitchesOff(m) == IF mode # Sequential THEN Sequential ELSE m

\* playlists.InvertMode: the mode is switched on, or off when it is active
InvertMode(m) == IF mode = m THEN Sequential ELSE m

setShuffleMode(typed) ==
  /\ mode' = InvertMode(Random)
  /\ Returns
  /\ UNCHANGED <<queue, playlists, currentPlaylist, currentIndexTrack,
                 guiCurrentTrack, selected>>

setShuffleAllMode(typed) ==
  /\ mode' = InvertMode(AllRandom)
  /\ Returns
  /\ UNCHANGED <<queue, playlists, currentPlaylist, currentIndexTrack,
                 guiCurrentTrack, selected>>

\* enableSearchInputCommand: the status view becomes editable and gets the
\* focus; its Enter key will execute the search
enableSearchInputCommand(typed) ==
  /\ main' = Idle
  /\ process' = process
  /\ view' = VIEW_STATUS
  /\ actionBeingExecuted' = Search
  /\ UNCHANGED uiVars

\* handler(g, v) for the handlers the typed runes can reach
\* typed is the Repeat Counter the handler finds
Handler(h, typed) ==
  CASE h = "pauseTrackCommand" -> pauseTrackCommand(typed)
    [] h = "playSelectedTrack" -> playSelectedTrack(typed)
    [] h = "nextTrackCommand" -> nextTrackCommand(typed)
    [] h = "quit" -> quit(typed)
    [] h = "queueTrackCommand" -> queueTrackCommand(typed)
    [] h = "queuePlaylistCommand" -> queuePlaylistCommand(typed)
    [] h = "removeTrackCommand" -> removeTrackCommand(typed)
    [] h = "openCloseFolderCommand" -> openCloseFolderCommand(typed)
    [] h = "enableSearchInputCommand" -> enableSearchInputCommand(typed)
    [] h = "repeatPlayingTrackCommand" -> repeatPlayingTrackCommand(typed)
    [] h = "setShuffleMode" -> setShuffleMode(typed)
    [] h = "setShuffleAllMode" -> setShuffleAllMode(typed)

\* ------------------------------------------------------------------------
\* The keyboard dispatcher
\* ------------------------------------------------------------------------

\* keyboard.SequentialKeys[v.Name()+" "+keyCombination], NoHandler if absent
Lookup(v, combination) ==
  IF <<v, combination>> \in DOMAIN keyboard.SequentialKeys
  THEN keyboard.SequentialKeys[<<v, combination>>] ELSE NoHandler

\* keyPressed that leaves the matched combination in the key buffer
RECURSIVE keyPressedKeepsBuffer(_, _, _, _, _)
keyPressedKeepsBuffer(buffer, number, key, v, depth) ==
  LET appended == Append(buffer, key)
      keyCombination == IF Len(appended) = 1 THEN <<appended[1]>>
                        ELSE <<appended[1], appended[2]>>
      handler == Lookup(v, keyCombination)
  IN  IF handler # NoHandler
      THEN [buffer |-> appended,
            number |-> 0,
            handlers |-> <<[handler |-> handler, buffer |-> << >>,
                            number |-> number]>>,
            depth |-> depth]
      ELSE IF Len(appended) >= 2
      THEN keyPressedKeepsBuffer(<< >>, number, appended[2], v, depth + 1)
      ELSE [buffer |-> appended, number |-> number, handlers |-> << >>,
            depth |-> depth]

\* keyPressed that resets the Repeat Counter before it calls the handler
\* and clears the key buffer after it
RECURSIVE keyPressedResetsFirst(_, _, _, _, _)
keyPressedResetsFirst(buffer, number, key, v, depth) ==
  LET appended == Append(buffer, key)
      keyCombination == IF Len(appended) = 1 THEN <<appended[1]>>
                        ELSE <<appended[1], appended[2]>>
      handler == Lookup(v, keyCombination)
  IN  IF handler # NoHandler
      THEN [buffer |-> << >>,
            number |-> 0,
            handlers |-> <<[handler |-> handler, buffer |-> appended,
                            number |-> 0]>>,
            depth |-> depth]
      ELSE IF Len(appended) >= 2
      THEN keyPressedResetsFirst(<< >>, number, appended[2], v, depth + 1)
      ELSE [buffer |-> appended, number |-> number, handlers |-> << >>,
            depth |-> depth]

\* keyPressed that gives up a two-key combination that is not bound
RECURSIVE keyPressedNoFallback(_, _, _, _, _)
keyPressedNoFallback(buffer, number, key, v, depth) ==
  LET appended == Append(buffer, key)
      keyCombination == IF Len(appended) = 1 THEN <<appended[1]>>
                        ELSE <<appended[1], appended[2]>>
      handler == Lookup(v, keyCombination)
  IN  IF handler # NoHandler
      THEN [buffer |-> << >>,
            number |-> 0,
            handlers |-> <<[handler |-> handler, buffer |-> << >>,
                            number |-> number]>>,
            depth |-> depth]
      ELSE IF Len(appended) >= 2
      THEN [buffer |-> << >>, number |-> number, handlers |-> << >>,
            depth |-> depth]
      ELSE [buffer |-> appended, number |-> number, handlers |-> << >>,
            depth |-> depth]

\* keyPressed that leaves a two-key combination that is not bound in the
\* key buffer
keyPressedKeepsBoth(buffer, number, key, v, depth) ==
  LET appended == Append(buffer, key)
      keyCombination == IF Len(appended) = 1 THEN <<appended[1]>>
                        ELSE <<appended[1], appended[2]>>
      handler == Lookup(v, keyCombination)
  IN  IF handler # NoHandler
      THEN [buffer |-> << >>,
            number |-> 0,
            handlers |-> <<[handler |-> handler, buffer |-> << >>,
                            number |-> number]>>,
            depth |-> depth]
      ELSE [buffer |-> appended, number |-> number, handlers |-> << >>,
            depth |-> depth]

\* keyPressed that resets the Repeat Counter also when it finds no handler
RECURSIVE keyPressedResetsOnMiss(_, _, _, _, _)
keyPressedResetsOnMiss(buffer, number, key, v, depth) ==
  LET appended == Append(buffer, key)
      keyCombination == IF Len(appended) = 1 THEN <<appended[1]>>
                        ELSE <<appended[1], appended[2]>>
      handler == Lookup(v, keyCombination)
  IN  IF handler # NoHandler
      THEN [buffer |-> << >>,
            number |-> 0,
            handlers |-> <<[handler |-> handler, buffer |-> << >>,
                            number |-> number]>>,
            depth |-> depth]
      ELSE IF Len(appended) >= 2
      THEN keyPressedResetsOnMiss(<< >>, number, appended[2], v, depth + 1)
      ELSE [buffer |-> appended, number |-> 0, handlers |-> << >>,
            depth |-> depth]

\* keyPressed on the key buffer and the Repeat Counter: the buffer it
\* leaves, the Repeat Counter it leaves when it returns, the handlers it
\* calls with the buffer and the Repeat Counter each one finds, and the
\* number of nested keyPressed calls
RECURSIVE keyPressed(_, _, _, _, _)
keyPressed(buffer, number, key, v, depth) ==
  LET appended == Append(buffer, key)
      keyCombination == IF Len(appended) = 1 THEN <<appended[1]>>
                        ELSE <<appended[1], appended[2]>>
      handler == Lookup(v, keyCombination)
  IN  IF handler # NoHandler
      THEN [buffer |-> << >>,
            number |-> 0,
            handlers |-> <<[handler |-> handler, buffer |-> << >>,
                            number |-> number]>>,
            depth |-> depth]
      ELSE IF Len(appended) >= 2
      THEN keyPressed(<< >>, number, appended[2], v, depth + 1)
      ELSE [buffer |-> appended, number |-> number, handlers |-> << >>,
            depth |-> depth]

\* a letter, symbol or special key typed in a command view: keyPressed up
\* to the return of the handler, or up to the send the handler waits in
KeyPressed(key) ==
  /\ process = "running"
  /\ main = Idle
  /\ view \in CommandViews
  /\ LET r == keyPressed(multipleKeysBuffer, multipleKeysNumber, key, view, 1)
     IN  /\ multipleKeysBuffer' = r.buffer
         /\ stroke' = [key |-> key, handlers |-> r.handlers,
                       depth |-> r.depth, number |-> r.number,
                       mode |-> mode]
         /\ IF r.handlers = << >>
            THEN /\ multipleKeysNumber' = r.number
                 /\ digits' = digits
                 /\ UNCHANGED <<main, process, uiVars, view,
                                actionBeingExecuted>>
            ELSE /\ Handler(r.handlers[1].handler, r.handlers[1].number)
                 /\ multipleKeysNumber' =
                      IF main'.pc = "idle" THEN r.number
                      ELSE multipleKeysNumber
                 /\ digits' = IF main'.pc = "idle" THEN << >> ELSE digits
  /\ UNCHANGED <<keyFunctions, keyboard, timer, uiLoop, bus, spotify, device>>

\* multipleKeysNumberPressed that adds the digit without the shift
multipleKeysNumberPressedAdds(number, pressedNumber) ==
  IF number = 0 THEN pressedNumber ELSE number + pressedNumber

\* multipleKeysNumberPressed: the arithmetic on the Repeat Counter
multipleKeysNumberPressed(number, pressedNumber) ==
  IF number = 0 THEN pressedNumber ELSE number * 10 + pressedNumber

\* a digit key that also clears the key buffer
NumberPressedClearsBuffer(pressedNumber) ==
  /\ process = "running"
  /\ main = Idle
  /\ Len(digits) < MaxDigits
  /\ multipleKeysNumber' =
       multipleKeysNumberPressed(multipleKeysNumber, pressedNumber)
  /\ digits' = Append(digits, pressedNumber)
  /\ multipleKeysBuffer' = << >>
  /\ UNCHANGED <<keyFunctions, keyboard, timer, view, actionBeingExecuted,
                 stroke, uiVars, main, uiLoop, bus, spotify, device, process>>

\* a digit key; its binding is registered with the view name "", which
\* gocui applies to every view, the status view included
NumberPressed(pressedNumber) ==
  /\ process = "running"
  /\ main = Idle
  /\ Len(digits) < MaxDigits
  /\ multipleKeysNumber' =
       multipleKeysNumberPressed(multipleKeysNumber, pressedNumber)
  /\ digits' = Append(digits, pressedNumber)
  /\ UNCHANGED <<keyFunctions, keyboard, timer, multipleKeysBuffer, view, actionBeingExecuted,
                 stroke, uiVars, main, uiLoop, bus, spotify, device, process>>

\* searchCommand: the typed query, if there is one, is published; then the
\* playlists view gets the focus (gui.enableSideView)
searchCommand(query) ==
  IF query # ""
  THEN /\ main' = [pc |-> "send", ch |-> "search", value |-> query,
                   handler |-> "searchCommand"]
       /\ view' = view
  ELSE /\ main' = Idle
       /\ view' = VIEW_PLAYLISTS

\* the Enter key of the status view: executeAction, up to the return of
\* the command or up to the send it waits in
ExecuteAction ==
  /\ process = "running"
  /\ main = Idle
  /\ view = VIEW_STATUS
  /\ IF actionBeingExecuted = Search
     THEN \E query \in Queries : searchCommand(query)
     ELSE UNCHANGED <<main, view>>
  /\ UNCHANGED <<keyFunctions, keyboard, timer, multipleKeysBuffer, multipleKeysNumber,
                 actionBeingExecuted, stroke, digits, uiVars, uiLoop, bus,
                 spotify, device, process>>

\* the send of a publishing handler completes.  A handler called by
\* keyPressed returns to it, and keyPressed resets the Repeat Counter; after
\* quit the loop ends; searchCommand goes on to gui.enableSideView
MainSend ==
  /\ process = "running"
  /\ main.pc = "send"
  /\ CanSend(main.ch)
  /\ bus' = Send(main.ch, main.value)
  /\ IF main.handler = "searchCommand"
     THEN /\ view' = VIEW_PLAYLISTS
          /\ UNCHANGED <<multipleKeysNumber, digits>>
     ELSE /\ view' = view
          /\ multipleKeysNumber' = stroke.number
          /\ digits' = << >>
  /\ main' = IF main.handler = "quit" THEN [pc |-> "quit"] ELSE Idle
  /\ UNCHANGED <<keyFunctions, keyboard, timer, multipleKeysBuffer, actionBeingExecuted, stroke,
                 uiVars, uiLoop, spotify, device, process>>

\* ------------------------------------------------------------------------
\* The UI signal loop: the goroutine of StartConsoleUserInterface
\* ------------------------------------------------------------------------

Selecting == [pc |-> "select"]

\* case message := <-gui.events.WaitForStatus(): gui.updateStatus(message)
UiStatus ==
  /\ process = "running"
  /\ uiLoop = Selecting
  /\ CanReceive("status")
  /\ bus' = Receive("status")
  /\ UNCHANGED <<keyVars, timer, queue, playlists, mode, currentPlaylist,
                 currentIndexTrack, guiCurrentTrack, selected, main, uiLoop,
                 spotify, device, process>>

\* case <-gui.events.WaitForPlayTokenLost()
UiPlayTokenLost ==
  /\ process = "running"
  /\ uiLoop = Selecting
  /\ CanReceive("playTokenLost")
  /\ bus' = Receive("playTokenLost")
  /\ UNCHANGED <<keyVars, timer, queue, playlists, mode, currentPlaylist,
                 currentIndexTrack, guiCurrentTrack, selected, main, uiLoop,
                 spotify, device, process>>

\* case <-gui.events.NextPlay: gui.playNext(), up to the Pop or the send
UiNextPlay ==
  /\ process = "running"
  /\ uiLoop = Selecting
  /\ CanReceive("nextPlay")
  /\ bus' = Receive("nextPlay")
  /\ IF queue # << >>
     THEN /\ uiLoop' = [pc |-> "pop"]
          /\ UNCHANGED <<currentPlaylist, currentIndexTrack, guiCurrentTrack,
                         process>>
     ELSE IF hasPlaylistSelected
     THEN \E o \in playNextFromPlaylist :
            IF o.panic
            THEN /\ process' = "panic"
                 /\ UNCHANGED <<currentPlaylist, currentIndexTrack,
                                guiCurrentTrack, uiLoop>>
            ELSE /\ currentPlaylist' = o.playlist
                 /\ currentIndexTrack' = o.index
                 /\ guiCurrentTrack' = o.track
                 /\ uiLoop' = [pc |-> "send", track |-> o.track]
                 /\ process' = process
     ELSE UNCHANGED <<currentPlaylist, currentIndexTrack, guiCurrentTrack,
                      uiLoop, process>>
  /\ UNCHANGED <<keyVars, timer, queue, playlists, mode, selected, main, spotify,
                 device>>

\* playNextFromQueue: gui.play(queue.Pop()), up to the send
UiPop ==
  /\ process = "running"
  /\ uiLoop.pc = "pop"
  /\ guiCurrentTrack' = QueuePop(queue)
  /\ queue' = QueueRest(queue)
  /\ uiLoop' = [pc |-> "send", track |-> QueuePop(queue)]
  /\ UNCHANGED <<keyVars, timer, playlists, mode, currentPlaylist, currentIndexTrack,
                 selected, main, bus, spotify, device, process>>

\* gui.events.Play(gui.currentTrack)
UiSend ==
  /\ process = "running"
  /\ uiLoop.pc = "send"
  /\ CanSend("toPlay")
  /\ bus' = Send("toPlay", uiLoop.track)
  /\ uiLoop' = Selecting
  /\ UNCHANGED <<keyVars, timer, uiVars, main, spotify, device, process>>

\* ------------------------------------------------------------------------
\* The backend: Spotify.waitForEvents and the handlers it calls
\* ------------------------------------------------------------------------

Stopped == [state |-> "stopped", track |-> NoTrack]

\* Spotify.isTrackAvailable
isTrackAvailable(track) == Availability(track) = "available"

\* Spotify.isPausedOrPlaying
isPausedOrPlaying == spotify.currentTrack # NoTrack

\* the handler is in a send; `next` is what it still does when the send
\* is done: "unpause" (playCurrentTrack), "pause" (pauseCurrentTrack)
BackendSending(ch, value, next) ==
  [spotify EXCEPT !.pc = "send",
                  !.send = [ch |-> ch, value |-> value, next |-> next]]

\* Spotify.play that skips a track that is not available: it asks for the
\* next track instead of reporting the status
playSkipsUnavailable(track, loads, next) ==
  IF track = NoTrack
  THEN /\ process' = "panic"
       /\ UNCHANGED <<spotify, device>>
  ELSE IF ~isTrackAvailable(track)
  THEN /\ spotify' = BackendSending("nextPlay", TRUE, next)
       /\ UNCHANGED <<device, process>>
  ELSE IF ~loads
  THEN /\ process' = "fatal"
       /\ UNCHANGED <<spotify, device>>
  ELSE /\ device' = [state |-> "playing", track |-> track]
       /\ spotify' = [BackendSending("status", "Playing", next)
                        EXCEPT !.currentTrack = track]
       /\ process' = process

\* Spotify.play(track), up to its send; loads is the outcome of player.Load
play(track, loads, next) ==
  IF track = NoTrack
  THEN \* track.Availability() of a nil track
       /\ process' = "panic"
       /\ UNCHANGED <<spotify, device>>
  ELSE IF ~isTrackAvailable(track)
  THEN /\ spotify' = BackendSending("status", "Not available", next)
       /\ UNCHANGED <<device, process>>
  ELSE IF ~loads
  THEN \* log.Fatal(err)
       /\ process' = "fatal"
       /\ UNCHANGED <<spotify, device>>
  ELSE /\ device' = [state |-> "playing", track |-> track]
       /\ spotify' = [BackendSending("status", "Playing", next)
                        EXCEPT !.currentTrack = track]
       /\ process' = process

\* case <-spotify.session.EndOfTrackUpdates(): the playing track has ended
BackendEndOfTrack ==
  /\ process = "running"
  /\ spotify.pc = "select"
  /\ device.state = "playing"
  /\ device' = [device EXCEPT !.state = "ended"]
  /\ spotify' = BackendSending("nextPlay", TRUE, "none")
  /\ UNCHANGED <<keyVars, timer, uiVars, main, uiLoop, bus, process>>

\* case <-spotify.session.PlayTokenLostUpdates()
BackendPlayTokenLost ==
  /\ process = "running"
  /\ spotify.pc = "select"
  /\ spotify' = BackendSending("playTokenLost", TRUE, "none")
  /\ UNCHANGED <<keyVars, timer, uiVars, main, uiLoop, bus, device, process>>

\* case track := <-spotify.events.ToPlay: spotify.play(track)
BackendPlay ==
  /\ process = "running"
  /\ spotify.pc = "select"
  /\ CanReceive("toPlay")
  /\ bus' = Receive("toPlay")
  /\ \E loads \in BOOLEAN : play(Head(bus["toPlay"]), loads, "none")
  /\ UNCHANGED <<keyVars, timer, uiVars, main, uiLoop>>

\* case <-spotify.events.WaitForPause(): spotify.pause()
BackendPause ==
  /\ process = "running"
  /\ spotify.pc = "select"
  /\ CanReceive("pause")
  /\ bus' = Receive("pause")
  /\ IF ~isPausedOrPlaying
     THEN UNCHANGED <<spotify, device, process>>
     ELSE IF spotify.paused
     THEN \* playCurrentTrack
          \E loads \in BOOLEAN : play(spotify.currentTrack, loads, "unpause")
     ELSE \* pauseCurrentTrack
          /\ device' = [device EXCEPT !.state = "paused"]
          /\ spotify' = BackendSending("status", "Paused", "pause")
          /\ process' = process
  /\ UNCHANGED <<keyVars, timer, uiVars, main, uiLoop>>

\* case <-spotify.events.WaitForShutdown(): spotify.shutdownSpotify()
BackendShutdown ==
  /\ process = "running"
  /\ spotify.pc = "select"
  /\ spotify.logouts < MaxShutdowns
  /\ CanReceive("shutdown")
  /\ bus' = Receive("shutdown")
  /\ spotify' = [BackendSending("shutdown", TRUE, "none")
                   EXCEPT !.logouts = @ + 1]
  /\ UNCHANGED <<keyVars, timer, uiVars, main, uiLoop, device, process>>

\* the send of the handler completes, the handler finishes and the loop
\* is back at its select; after the send of Initialise the backend has
\* returned; after the send of initPlaylist waitForEvents begins
BackendSend ==
  /\ process = "running"
  /\ spotify.pc = "send"
  /\ CanSend(spotify.send.ch)
  /\ bus' = Send(spotify.send.ch, spotify.send.value)
  /\ spotify' =
       [spotify EXCEPT
          !.pc = IF spotify.send.next = "return" THEN "returned"
                 ELSE "select",
          !.paused = CASE spotify.send.next = "unpause" -> FALSE
                       [] spotify.send.next = "pause" -> TRUE
                       [] OTHER -> @]
  /\ UNCHANGED <<keyVars, timer, uiVars, main, uiLoop, device, process>>

\* ------------------------------------------------------------------------
\* Startup: Initialise, initialiseSpotify and the login wait of the backend;
\* StartConsoleUserInterface up to the arrival of the playlists
\* ------------------------------------------------------------------------

\* the steps of initialiseSpotify before checkIfLoggedIn, in their order
StartupSteps == <<"initKey", "initCache", "initSession", "login">>

\* what initialiseSpotify does when a step has returned without an error;
\* after login it is checkIfLoggedIn, which begins with the login wait
StepAfter(step) ==
  CASE step = "initKey" -> "initCache"
    [] step = "initCache" -> "initSession"
    [] step = "initSession" -> "login"
    [] step = "login" -> "wait"

CouldNotLogin == "Could not login"

\* initialiseSpotify returns the error err to Initialise
Failed(err) == [spotify EXCEPT !.pc = "failed", !.err = err]

\* initKey, initCache, initSession or login returns, with or without an
\* error.  After login, waitForSuccessfulConnectionStateUpdates makes the
\* timeout channel, starts the timer goroutine and waits in its select.
StartupStep ==
  /\ process = "running"
  /\ \E i \in 1..Len(StartupSteps) : spotify.pc = StartupSteps[i]
  /\ \E ok \in BOOLEAN :
       IF ok
       THEN /\ spotify' = [spotify EXCEPT !.pc = StepAfter(spotify.pc)]
            /\ timer' = IF spotify.pc = "login" THEN "sleeping" ELSE timer
       ELSE /\ spotify' = Failed(spotify.pc)
            /\ timer' = timer
  /\ UNCHANGED <<keyVars, uiVars, main, uiLoop, bus, device, process>>

\* the timer goroutine: time.Sleep is over, it goes on to timeout <- true.
\* The channel has no buffer: the send waits for a receiver.
TimerFires ==
  /\ process = "running"
  /\ timer = "sleeping"
  /\ timer' = "blocked"
  /\ UNCHANGED <<keyVars, uiVars, main, uiLoop, bus, spotify, device,
                 process>>

\* case <-spotify.session.ConnectionStateUpdates(): return isLoggedIn();
\* checkIfLoggedIn goes on to finishInitialisation or returns its error
ConnectionStateUpdate ==
  /\ process = "running"
  /\ spotify.pc = "wait"
  /\ \E isLoggedIn \in BOOLEAN :
       spotify' = IF isLoggedIn THEN [spotify EXCEPT !.pc = "finish"]
                  ELSE Failed(CouldNotLogin)
  /\ UNCHANGED <<keyVars, uiVars, main, uiLoop, bus, device, timer,
                 process>>

\* the login wait that starts over when the timeout arrives
TimeoutRetried ==
  /\ process = "running"
  /\ spotify.pc = "wait"
  /\ timer = "blocked"
  /\ timer' = "sleeping"
  /\ UNCHANGED <<keyVars, uiVars, main, uiLoop, bus, spotify, device,
                 process>>

\* case <-timeout: return false.  The receive lets the timer goroutine
\* finish its send and end.
TimeoutReceived ==
  /\ process = "running"
  /\ spotify.pc = "wait"
  /\ timer = "blocked"
  /\ timer' = "done"
  /\ spotify' = Failed(CouldNotLogin)
  /\ UNCHANGED <<keyVars, uiVars, main, uiLoop, bus, device, process>>

\* finishInitialisation: the web-api user does not match, or initPlaylist
\* fails, or initPlaylist publishes the playlists and waitForEvents begins
FinishInitialisation ==
  /\ process = "running"
  /\ spotify.pc = "finish"
  /\ \E outcome \in {"mismatch", "initPlaylist", "nil"} :
       spotify' = IF outcome = "nil"
                  THEN BackendSending("playlists", "playlists", "none")
                  ELSE Failed(outcome)
  /\ UNCHANGED <<keyVars, uiVars, main, uiLoop, bus, device, timer,
                 process>>

\* Initialise with the error of initialiseSpotify: it prints the error and
\* calls events.ShutdownEngine(), then returns
InitialiseError ==
  /\ process = "running"
  /\ spotify.pc = "failed"
  /\ spotify' = BackendSending("shutdown", TRUE, "return")
  /\ UNCHANGED <<keyVars, uiVars, main, uiLoop, bus, device, timer,
                 process>>

\* StartConsoleUserInterface, case playlists = <-events.WaitForPlaylists():
\* the gui is set up and MainLoop begins.  The table keybindings() builds
\* here depends on the key-mapping file alone: keyboard holds it from the
\* start, and no key is dispatched before MainLoop begins.
UiPlaylists ==
  /\ process = "running"
  /\ main.pc = "start"
  /\ CanReceive("playlists")
  /\ bus' = Receive("playlists")
  /\ main' = Idle
  /\ UNCHANGED <<keyVars, uiVars, uiLoop, spotify, device, timer, process>>

\* StartConsoleUserInterface, case <-events.WaitForShutdown(): return
UiStartShutdown ==
  /\ process = "running"
  /\ main.pc = "start"
  /\ CanReceive("shutdown")
  /\ bus' = Receive("shutdown")
  /\ main' = [pc |-> "quit"]
  /\ UNCHANGED <<keyVars, uiVars, uiLoop, spotify, device, timer, process>>

\* ------------------------------------------------------------------------
\* Specifications
\* ------------------------------------------------------------------------

Modes == {Sequential, Random, AllRandom}

\* the backend in waitForEvents, nothing played yet
WaitingForEvents ==
  [pc |-> "select", currentTrack |-> NoTrack, paused |-> FALSE,
   logouts |-> 0, err |-> "nil",
   send |-> [ch |-> "status", value |-> "", next |-> "none"]]

\* what is the same at the start of the process and when MainLoop begins
InitState ==
  /\ multipleKeysBuffer = << >>
  /\ multipleKeysNumber = 0
  /\ actionBeingExecuted = ""
  /\ stroke = [key |-> "", handlers |-> << >>, depth |-> 0, number |-> 0,
               mode |-> Sequential]
  /\ digits = << >>
  /\ playlists = InitialPlaylists
  /\ currentPlaylist = NoPlaylist
  /\ currentIndexTrack = 0
  /\ guiCurrentTrack = NoTrack
  /\ uiLoop = Selecting
  /\ bus = EmptyBus
  /\ device = Stopped
  /\ process = "running"

\* MainLoop begins, with the table built from the key-mapping file entries:
\* the login wait has returned and its timer is still asleep
InitRunning(entries) ==
  /\ InitState
  /\ keyFunctions = entries
  /\ keyboard = [SequentialKeys |-> keybindings(keyFunctions)]
  /\ main = Idle
  /\ spotify = WaitingForEvents
  /\ timer = "sleeping"

InitCommon == InitRunning(UserKeys)

\* the dispatcher: every rune and digit, in each command view, with the
\* other actors not scheduled
InitKeys ==
  /\ InitCommon
  /\ view \in CommandViews
  /\ selected = [playlist |-> "A", track |-> 0, queue |-> 0]
  /\ queue = << >>
  /\ mode = Sequential

NextKeys ==
  \/ \E key \in Runes : KeyPressed(key)
  \/ \E n \in Digits : NumberPressed(n)
  \/ MainSend

SpecKeys == InitKeys /\ [][NextKeys]_vars

\* the dispatcher under each of the key-mapping files, in each command
\* view, with the other actors not scheduled
UserRunes == {"p", "q", "u", "x", ">"}

InitUserKeys ==
  /\ \E file \in UserFiles : InitRunning(file)
  /\ view \in CommandViews
  /\ selected = [playlist |-> "A", track |-> 0, queue |-> 0]
  /\ queue = << >>
  /\ mode = Sequential

NextUserKeys ==
  \/ \E key \in UserRunes : KeyPressed(key)
  \/ MainSend

SpecUserKeys == InitUserKeys /\ [][NextUserKeys]_vars

\* the start of the process: the backend from Initialise on, the UI from
\* StartConsoleUserInterface on, then the tracks view with the keys that
\* play and pause
StartRunes == {"space", "p"}

InitStartup ==
  /\ InitState
  /\ keyFunctions = UserKeys
  /\ keyboard = [SequentialKeys |-> keybindings(keyFunctions)]
  /\ main = [pc |-> "start"]
  /\ spotify = [WaitingForEvents EXCEPT !.pc = "initKey"]
  /\ timer = "none"
  /\ view = VIEW_TRACKS
  /\ selected = [playlist |-> "A", track |-> 0, queue |-> 0]
  /\ queue = << >>
  /\ mode = Sequential

NextStartup ==
  \/ StartupStep
  \/ TimerFires
  \/ ConnectionStateUpdate
  \/ TimeoutReceived
  \/ FinishInitialisation
  \/ InitialiseError
  \/ UiPlaylists
  \/ UiStartShutdown
  \/ \E key \in StartRunes : KeyPressed(key)
  \/ MainSend
  \/ UiStatus
  \/ BackendPlay
  \/ BackendPause
  \/ BackendSend

SpecStartup == InitStartup /\ [][NextStartup]_vars

\* the steps of the backend and of StartConsoleUserInterface that need
\* neither the session nor the user
Scheduled ==
  \/ StartupStep
  \/ FinishInitialisation
  \/ InitialiseError
  \/ BackendSend
  \/ UiPlaylists
  \/ UiStartShutdown

\* the same with the goroutines scheduled: a sleep that is over ends, a
\* step, a send or a receive that can be made is made.  What the session
\* and the user do is left open.
FairSpecStartup ==
  /\ InitStartup
  /\ [][NextStartup]_vars
  /\ WF_vars(TimerFires)
  /\ WF_vars(TimeoutReceived)
  /\ WF_vars(Scheduled)

\* the status view: the search key, the digits and the Enter key, with the
\* other actors not scheduled
InitTyping == InitKeys

NextTyping ==
  \/ \E key \in TypingRunes : KeyPressed(key)
  \/ \E n \in Digits : NumberPressed(n)
  \/ ExecuteAction
  \/ MainSend

SpecTyping == InitTyping /\ [][NextTyping]_vars

\* the bus: the UI main loop in the tracks view, the UI signal loop and
\* the backend loop
InitBus ==
  /\ InitCommon
  /\ view = VIEW_TRACKS
  /\ selected = [playlist |-> "A", track |-> 0, queue |-> 0]
  /\ queue \in {<< >>, <<"t2">>}
  /\ mode = Sequential

NextBus ==
  \/ \E key \in BusRunes : KeyPressed(key)
  \/ MainSend
  \/ UiStatus
  \/ UiPlayTokenLost
  \/ UiNextPlay
  \/ UiPop
  \/ UiSend
  \/ BackendEndOfTrack
  \/ BackendPlayTokenLost
  \/ BackendPlay
  \/ BackendPause
  \/ BackendShutdown
  \/ BackendSend

SpecBus == InitBus /\ [][NextBus]_vars

\* the next-track selection: the modes toggled, tracks removed, with and
\* without a queued track; the backend plays what it is sent and reports
\* the end of the track
InitNext ==
  /\ InitCommon
  /\ view = VIEW_TRACKS
  /\ selected = [playlist |-> "A", track |-> 0, queue |-> 0]
  /\ queue \in {<< >>, <<"t2">>}
  /\ mode = Sequential

NextNext ==
  \/ \E key \in NextRunes : KeyPressed(key)
  \/ MainSend
  \/ UiStatus
  \/ UiNextPlay
  \/ UiPop
  \/ UiSend
  \/ BackendEndOfTrack
  \/ BackendPlay
  \/ BackendSend

SpecNext == InitNext /\ [][NextNext]_vars

\* the queue: tracks added at the back, inserted at the front and popped
\* by the NextTrack key, while the backend plays what it is sent; a key is
\* typed while the queue has room for what it inserts
InitQ ==
  /\ InitCommon
  /\ view = VIEW_TRACKS
  /\ selected = [playlist |-> "A", track |-> 0, queue |-> 0]
  /\ queue = << >>
  /\ mode = Sequential

\* a key typed while the queue has room for what the key inserts
QueueKeyPressed(key) ==
  /\ KeyPressed(key)
  /\ Len(queue') <= MaxQueue + 1

NextQ ==
  \/ \E key \in QueueRunes : QueueKeyPressed(key)
  \/ MainSend
  \/ UiStatus
  \/ BackendPlay
  \/ BackendSend

SpecQueue == InitQ /\ [][NextQ]_vars

\* ------------------------------------------------------------------------
\* Properties of the keyboard dispatcher
\* ------------------------------------------------------------------------

\* the decimal number written by a sequence of digits
RECURSIVE Decimal(_)
Decimal(ds) ==
  IF ds = << >> THEN 0
  ELSE Decimal(SubSeq(ds, 1, Len(ds) - 1)) * 10 + ds[Len(ds)]

\* a step of keyPressed, and one in which it calls a handler
AllRunes ==
  Runes \cup TypingRunes \cup BusRunes \cup NextRunes \cup QueueRunes
KeyStep == \E key \in AllRunes : KeyPressed(key)
HandlerCalled == KeyStep /\ stroke'.handlers # << >>

\* keyPressed returns from the handler it called
HandlerReturned ==
  \/ /\ main.pc = "send"
     /\ main.handler # "searchCommand"
     /\ main'.pc # "send"
  \/ HandlerCalled /\ main'.pc # "send" /\ process' = "running"

\* dd is bound to RemoveTrack and d alone is not bound in the current view
DoubleDView ==
  /\ Lookup(view, <<"d", "d">>) = "removeTrackCommand"
  /\ Lookup(view, <<"d">>) = NoHandler

\* C1: where dd is RemoveTrack and d is unbound, a d typed on an empty key
\* buffer calls no handler and leaves d buffered; the d typed next calls
\* removeTrackCommand exactly once and leaves the key buffer empty.
C1_DoubleD ==
  [][(KeyPressed("d") /\ DoubleDView) =>
       /\ multipleKeysBuffer = << >> =>
            /\ stroke'.handlers = << >>
            /\ multipleKeysBuffer' = <<"d">>
       /\ multipleKeysBuffer = <<"d">> =>
            /\ Len(stroke'.handlers) = 1
            /\ stroke'.handlers[1].handler = "removeTrackCommand"
            /\ multipleKeysBuffer' = << >>]_vars

C1_Witness ==
  /\ stroke.key = "d"
  /\ Len(stroke.handlers) = 1
  /\ stroke.handlers[1].handler = "removeTrackCommand"
  /\ multipleKeysBuffer = << >>
  /\ DoubleDView

\* C2: the handler of a bound command finds the Repeat Counter equal to the
\* decimal number of the digits typed since the counter was 0; without
\* digits the command acts once: queueTrackCommand adds one track,
\* removeTrackCommand removes one track of the playlist or of the queue.
C2_RepeatCount ==
  [][HandlerCalled =>
       LET call == stroke'.handlers[1]
           sel == getSelectedPlaylistAndTrack
       IN  /\ call.number = Decimal(digits)
           /\ (digits = << >> /\ sel[1] # NoPlaylist) =>
                /\ (call.handler = "queueTrackCommand"
                      /\ Len(queue) < MaxQueue) =>
                     queue' = Append(queue, playlists[sel[1]][sel[2] + 1])
                /\ (call.handler = "removeTrackCommand"
                      /\ view = VIEW_TRACKS) =>
                     playlists'[sel[1]] =
                       RemoveAt(playlists[sel[1]], sel[2] + 1)
           /\ (digits = << >> /\ call.handler = "removeTrackCommand"
                 /\ view = VIEW_QUEUE /\ selected.queue < Len(queue)) =>
                queue' = RemoveAt(queue, selected.queue + 1)]_vars

C2_Witness ==
  /\ stroke.handlers # << >>
  /\ stroke.handlers[1].number = 31
  /\ stroke.handlers[1].handler = "queueTrackCommand"

\* C3: the handler keyPressed calls finds the Repeat Counter as it was
\* typed and the key buffer empty, and the Repeat Counter is 0 when
\* keyPressed returns, whatever the handler did.
C3_ResetAfterHandler ==
  [][/\ HandlerCalled =>
          /\ stroke'.handlers[1].number = multipleKeysNumber
          /\ stroke'.handlers[1].buffer = << >>
     /\ HandlerReturned => multipleKeysNumber' = 0]_vars

C3_Witness ==
  /\ stroke.handlers # << >>
  /\ stroke.handlers[1].number = 13
  /\ stroke.handlers[1].handler = "quit"
  /\ main.pc = "quit"
  /\ multipleKeysNumber = 0

\* ------------------------------------------------------------------------
\* Properties of the bus, the backend loop and the next-track selection
\* ------------------------------------------------------------------------

\* steps in which a loop takes a signal from a conduit
Taken(ch) == Len(bus'[ch]) < Len(bus[ch])

\* the backend has been through shutdownSpotify and is at its select again
AfterShutdown == spotify.logouts > 0 /\ spotify.pc = "select"

\* C4: once the backend loop has observed Shutdown it takes no Play and no
\* Pause from the bus, and back at its select it reacts to nothing but a
\* further Shutdown: its state and the player stay as they are.
C4_NoSignalAfterShutdown ==
  [][spotify.logouts > 0 =>
       /\ ~Taken("toPlay")
       /\ ~Taken("pause")
       /\ (AfterShutdown /\ ~Taken("shutdown")) =>
            UNCHANGED <<spotify, device>>]_vars

\* C5: the backend runs its shutdown cleanup at most once, and once the
\* cleanup is done its loop has stopped: it is not at its select again.
C5_ShutdownTerminates ==
  /\ spotify.logouts <= 1
  /\ ~AfterShutdown

\* the UI signal loop and the backend loop wait in sends that only the
\* other one can receive
MutualBlock ==
  /\ process = "running"
  /\ uiLoop.pc = "send"
  /\ ~CanSend("toPlay")
  /\ spotify.pc = "send"
  /\ spotify.send.ch \in {"status", "nextPlay", "playTokenLost"}
  /\ ~CanSend(spotify.send.ch)

\* C7: the backend loop and the UI signal loop are never both blocked in
\* sends to each other.
C7_NoMutualBlock == ~MutualBlock

\* C9: an error of the session while the backend handles a signal, such as
\* a track the player fails to load, does not end the process.
C9_LoadFailureSurvived == process # "fatal"

\* the Cursor
Cursor == <<currentPlaylist, currentIndexTrack>>

\* C6: the UI signal loop takes a NextPlay: with a track in the queue it
\* goes on to the Pop, which finds the queue non-empty, takes its front
\* element as the track to send and leaves the Cursor alone; with an empty
\* queue and a playlist selected it goes on to send the track at the Cursor
\* the Mode Selector chose; with neither, nothing but the bus changes.
C6_PlayNext ==
  [][/\ Taken("nextPlay") =>
          /\ queue # << >> =>
               /\ uiLoop'.pc = "pop"
               /\ UNCHANGED <<queue, Cursor>>
          /\ (queue = << >> /\ hasPlaylistSelected) =>
               /\ process' = "running"
               /\ uiLoop'.pc = "send"
               /\ currentPlaylist' \in DOMAIN playlists
               /\ currentIndexTrack' \in Intn(Tracks_(currentPlaylist'))
               /\ uiLoop'.track =
                    playlists[currentPlaylist'][currentIndexTrack' + 1]
          /\ (queue = << >> /\ ~hasPlaylistSelected) =>
               UNCHANGED <<uiVars, uiLoop, main, spotify, device, process>>
     /\ (uiLoop.pc = "pop" /\ uiLoop'.pc # "pop") =>
          /\ queue # << >>
          /\ uiLoop' = [pc |-> "send", track |-> Head(queue)]
          /\ queue' = Tail(queue)
          /\ UNCHANGED Cursor
     /\ (uiLoop.pc = "send" /\ uiLoop'.pc # "send") =>
          bus'["toPlay"] = Append(bus["toPlay"], uiLoop.track)]_vars

\* C8: the backend takes a Pause and the player loads what it is asked to
\* load: without a current track nothing changes; with a current track a
\* playing device is paused and a paused device plays again.
C8_PauseToggles ==
  [][(Taken("pause") /\ process' = "running") =>
       /\ spotify.currentTrack = NoTrack => UNCHANGED <<spotify, device>>
       /\ (spotify.currentTrack # NoTrack /\ device.state = "playing") =>
            device'.state = "paused"
       /\ (spotify.currentTrack # NoTrack /\ device.state = "paused") =>
            device'.state = "playing"]_vars

\* the backend reports "Not available"
NotAvailable ==
  /\ spotify.pc = "send"
  /\ spotify.send.ch = "status"
  /\ spotify.send.value = "Not available"

\* C10: the backend takes a Play of a track that is not available: it goes
\* on to send the status "Not available" and nothing else, the device, the
\* current track and the paused flag stay as they are, and no NextPlay is
\* put on the bus, neither then nor when the status has been sent.
C10_NotAvailable ==
  [][/\ (Taken("toPlay") /\ ~isTrackAvailable(Head(bus["toPlay"]))) =>
          /\ NotAvailable'
          /\ spotify'.send.next = "none"
          /\ spotify'.currentTrack = spotify.currentTrack
          /\ spotify'.paused = spotify.paused
          /\ UNCHANGED <<device, process>>
          /\ bus'["nextPlay"] = bus["nextPlay"]
     /\ (NotAvailable /\ spotify'.pc # "send") =>
          /\ bus'["status"] = Append(bus["status"], "Not available")
          /\ bus'["nextPlay"] = bus["nextPlay"]
          /\ spotify'.pc = "select"
          /\ spotify'.currentTrack = spotify.currentTrack
          /\ spotify'.paused = spotify.paused
          /\ UNCHANGED <<device, process>>]_vars

C10_Witness ==
  /\ NotAvailable
  /\ spotify.currentTrack = "t1"
  /\ spotify.paused
  /\ device = [state |-> "ended", track |-> "t1"]

\* ------------------------------------------------------------------------
\* Properties of the status view
\* ------------------------------------------------------------------------

\* C20: while the status view is focused, a keystroke that is not its Enter
\* key leaves the key buffer and the Repeat Counter as they are and calls
\* no command handler.
C20_TypingIsNotCommand ==
  [][(view = VIEW_STATUS /\ view' = VIEW_STATUS /\ main'.pc # "send") =>
       /\ UNCHANGED <<multipleKeysBuffer, multipleKeysNumber>>
       /\ ~HandlerCalled]_vars

\* ------------------------------------------------------------------------
\* Properties of the next-track selection and of the modes
\* ------------------------------------------------------------------------

\* keyPressed calls handler h
Calls(h) == HandlerCalled /\ stroke'.handlers[1].handler = h

\* playNext starts: on a NextPlay signal or on the NextTrack key
PlayNextStep == Taken("nextPlay") \/ Calls("nextTrackCommand")

\* playNext goes to playNextFromPlaylist
FromPlaylist == PlayNextStep /\ queue = << >> /\ hasPlaylistSelected

\* C11: in Sequential mode, with the Cursor at index i of a playlist of
\* N > 0 tracks, 0 <= i < N, the selection moves the Cursor to index
\* (i + 1) mod N of the same playlist, to 0 from N - 1.
C11_SequentialWraps ==
  [][(/\ FromPlaylist
      /\ mode = Sequential
      /\ currentPlaylist \in DOMAIN playlists
      /\ currentIndexTrack \in 0..(Tracks_(currentPlaylist) - 1)) =>
       /\ process' = "running"
       /\ currentPlaylist' = currentPlaylist
       /\ currentIndexTrack' =
            (currentIndexTrack + 1) % Tracks_(currentPlaylist)
       /\ guiCurrentTrack' =
            playlists[currentPlaylist][currentIndexTrack' + 1]]_vars

C11_Witness ==
  /\ stroke.mode = Sequential
  /\ main.pc = "send"
  /\ main.handler = "nextTrackCommand"
  /\ main.value = "t1"
  /\ currentPlaylist = "A"
  /\ currentIndexTrack = 0
  /\ Tracks_("A") = 2

\* C12: with at least one playlist that has tracks, a ShuffleAll selection
\* does not fail and chooses a playlist that has tracks.
C12_ShuffleAllNonEmpty ==
  [][(/\ FromPlaylist
      /\ mode = AllRandom
      /\ \E name \in DOMAIN playlists : Tracks_(name) > 0) =>
       /\ process' = "running"
       /\ currentPlaylist' \in DOMAIN playlists
       /\ Tracks_(currentPlaylist') > 0]_vars

\* C13: the track index a Sequential selection reads the track at is an
\* index of the current playlist as it is at the selection, also after
\* tracks were removed from it.
C13_IndexInRange ==
  [][(FromPlaylist /\ mode = Sequential) =>
       /\ process' = "running"
       /\ currentPlaylist' \in DOMAIN playlists
       /\ currentIndexTrack' \in 0..(Tracks_(currentPlaylist') - 1)]_vars

\* C14: the mode is one of the three; the ShuffleAll toggle typed while
\* Shuffle is active leaves ShuffleAll active, the Shuffle toggle typed
\* while ShuffleAll is active leaves Shuffle active, and a toggle typed in
\* Sequential mode activates its mode.
C14_ModesExclusive ==
  [][/\ mode' \in Modes
     /\ (Calls("setShuffleAllMode") /\ mode \in {Random, Sequential}) =>
          mode' = AllRandom
     /\ (Calls("setShuffleMode") /\ mode \in {AllRandom, Sequential}) =>
          mode' = Random]_vars

C14_Witness ==
  /\ stroke.key = "S"
  /\ stroke.handlers # << >>
  /\ stroke.handlers[1].handler = "setShuffleAllMode"
  /\ stroke.mode = Random
  /\ mode = AllRandom

\* C17: the Pop of playNextFromQueue finds a track in the queue.
C17_PopNonEmpty ==
  [][(uiLoop.pc = "pop" /\ uiLoop'.pc # "pop") => queue # << >>]_vars

\* ------------------------------------------------------------------------
\* Properties of the fallback of keyPressed and of the queue commands
\* ------------------------------------------------------------------------

\* the key typed completes a two-key combination that is not bound
FailedCombination(k) ==
  /\ KeyPressed(k)
  /\ Len(multipleKeysBuffer) = 1
  /\ Lookup(view, <<multipleKeysBuffer[1], k>>) = NoHandler

\* C18: a key that completes a two-key combination that is not bound, and
\* that is bound alone in the view, is rechecked alone: its handler is
\* called exactly once, by the nested keyPressed, and the key buffer is
\* left empty.
C18_FallbackToSecondKey ==
  [][\A k \in AllRunes :
       (FailedCombination(k) /\ Lookup(view, <<k>>) # NoHandler) =>
         /\ Len(stroke'.handlers) = 1
         /\ stroke'.handlers[1].handler = Lookup(view, <<k>>)
         /\ stroke'.depth = 2
         /\ multipleKeysBuffer' = << >>]_vars

C18_Witness ==
  /\ view = VIEW_TRACKS
  /\ stroke.key = "u"
  /\ stroke.depth = 2
  /\ Len(stroke.handlers) = 1
  /\ stroke.handlers[1].handler = "queueTrackCommand"
  /\ multipleKeysBuffer = << >>

\* C19: a key that completes a two-key combination that is not bound, and
\* that is not bound alone either, is dropped: no handler is called and
\* the key buffer is left empty.
C19_FallbackDropsKey ==
  [][\A k \in AllRunes :
       (FailedCombination(k) /\ Lookup(view, <<k>>) = NoHandler) =>
         /\ stroke'.handlers = << >>
         /\ multipleKeysBuffer' = << >>]_vars

\* n times the tracks, one after the other
RECURSIVE RepeatSeq(_, _)
RepeatSeq(tracks, n) ==
  IF n = 0 THEN << >> ELSE tracks \o RepeatSeq(tracks, n - 1)

\* the queue after the tracks were offered to it one by one
Offered(q, tracks) ==
  LET all == q \o tracks
  IN  SubSeq(all, 1, IF Len(all) < MaxQueue THEN Len(all) ELSE MaxQueue)

\* the repeat count of a call, no more than what fills the queue
Rounds(call) ==
  LET n == IF call.number > 1 THEN call.number ELSE 1
  IN  IF n < MaxQueue + 1 THEN n ELSE MaxQueue + 1

\* C16: the queue never holds more than its maximum; a queue-track or
\* queue-playlist command, with any repeat count, appends the tracks it
\* offers, in their order, up to the first one that does not fit, and
\* leaves a full queue as it is.
C16_QueueBounded ==
  [][/\ Len(queue') <= MaxQueue
     /\ HandlerCalled =>
          LET call == stroke'.handlers[1]
              sel == getSelectedPlaylistAndTrack
          IN  /\ (call.handler = "queueTrackCommand"
                    /\ sel[1] # NoPlaylist) =>
                   queue' =
                     Offered(queue,
                             RepeatSeq(<<playlists[sel[1]][sel[2] + 1]>>,
                                       Rounds(call)))
              /\ (call.handler = "queuePlaylistCommand"
                    /\ sel[1] # NoPlaylist) =>
                   queue' = Offered(queue, RepeatSeq(playlists[sel[1]],
                                                    Rounds(call)))]_vars

C16_Witness ==
  /\ view = VIEW_PLAYLISTS
  /\ stroke.handlers # << >>
  /\ stroke.handlers[1].handler = "queuePlaylistCommand"
  /\ stroke.handlers[1].number = 3
  /\ Len(queue) = MaxQueue

\* C15: tracks added to an empty queue are popped in the order they were
\* added; a track inserted into any queue is the one popped next, and the
\* queue left by that Pop is the queue as it was before the Insert.  The
\* commands use the queue that way: queue-track adds at the back,
\* repeat-playing-track inserts at the front, NextTrack plays the front
\* track and removes it.
C15_QueueOrder ==
  [][/\ LET q == QueueAdd(QueueAdd(<< >>, "t1"), "t2")
        IN  /\ QueuePop(q) = "t1"
            /\ QueuePop(QueueRest(q)) = "t2"
            /\ QueueRest(QueueRest(q)) = << >>
     /\ \A t \in Tracks :
          /\ QueuePop(QueueInsert(queue, t)) = t
          /\ QueueRest(QueueInsert(queue, t)) = queue
     /\ (Calls("queueTrackCommand") /\ Len(queue) < MaxQueue) =>
          /\ queue' # << >>
          /\ SubSeq(queue', 1, Len(queue)) = queue
     /\ (Calls("repeatPlayingTrackCommand") /\ PlayingTrack # NoTrack) =>
          /\ QueuePop(queue') = PlayingTrack
          /\ QueueRest(queue') = queue
     /\ (Calls("nextTrackCommand") /\ queue # << >>) =>
          /\ main'.value = Head(queue)
          /\ queue' = Tail(queue)]_vars

C15_Witness ==
  /\ stroke.key = "r"
  /\ stroke.handlers # << >>
  /\ stroke.handlers[1].handler = "repeatPlayingTrackCommand"
  /\ queue = <<"t3", "t1">>

\* ------------------------------------------------------------------------
\* Frame properties of the dispatcher
\* ------------------------------------------------------------------------

\* a digit key has been typed
DigitStep == Len(digits') > Len(digits)

\* C24: a digit keystroke changes only the Repeat Counter, by
\* counter = counter == 0 ? digit : counter*10 + digit: the key buffer,
\* also one that holds a key, stays as it is and no handler is called; the
\* d typed after d and a digit still calls removeTrackCommand, with the
\* digits as its count.
C24_DigitOnlyCounter ==
  [][/\ DigitStep =>
          LET digit == digits'[Len(digits')]
          IN  /\ multipleKeysNumber' =
                   IF multipleKeysNumber = 0 THEN digit
                   ELSE multipleKeysNumber * 10 + digit
              /\ multipleKeysBuffer' = multipleKeysBuffer
              /\ stroke' = stroke
              /\ UNCHANGED <<keyFunctions, keyboard, timer, view, actionBeingExecuted, uiVars,
                             main, uiLoop, bus, spotify, device, process>>
     /\ (KeyPressed("d") /\ DoubleDView /\ multipleKeysBuffer = <<"d">>) =>
          /\ Len(stroke'.handlers) = 1
          /\ stroke'.handlers[1].handler = "removeTrackCommand"
          /\ stroke'.handlers[1].number = Decimal(digits)]_vars

\* d was typed with the Repeat Counter 0, then the digit 3
C24_Witness ==
  /\ multipleKeysBuffer = <<"d">>
  /\ stroke.key = "d"
  /\ stroke.number = 0
  /\ multipleKeysNumber = 3
  /\ digits = <<3>>
  /\ DoubleDView

\* C25: every call of keyPressed returns after at most one nested call,
\* has called at most one handler and leaves at most one key in the key
\* buffer.
C25_OneLevelOneHandler ==
  /\ stroke.depth <= 2
  /\ Len(stroke.handlers) <= 1
  /\ Len(multipleKeysBuffer) <= 1

\* the fallback ran and found no handler: the second key is buffered
C25_Witness ==
  /\ stroke.depth = 2
  /\ stroke.handlers = << >>
  /\ multipleKeysBuffer = <<stroke.key>>

\* C26: a keystroke of keyPressed that finds no handler leaves the Repeat
\* Counter as it is; the Repeat Counter changes only with a digit key, or
\* when keyPressed has found a handler and the handler returns.
C26_MissKeepsCounter ==
  [][/\ (KeyStep /\ stroke'.handlers = << >>) =>
          multipleKeysNumber' = multipleKeysNumber
     /\ multipleKeysNumber' # multipleKeysNumber =>
          \/ DigitStep
          \/ HandlerCalled
          \/ main.pc = "send" /\ main'.pc # "send"]_vars

\* the digit 3 was typed, then a d that is only the first key of dd
C26_Witness ==
  /\ multipleKeysBuffer = <<"d">>
  /\ stroke.key = "d"
  /\ stroke.handlers = << >>
  /\ stroke.number = 3
  /\ multipleKeysNumber = 3

\* ------------------------------------------------------------------------
\* The paused flag of the backend
\* ------------------------------------------------------------------------

\* C27: while the backend waits in its select, the paused flag is set only
\* if the device is paused on the current track; a Play of an available
\* track that has been handled leaves the flag false and that track as the
\* current track.
C27_PausedFlag ==
  spotify.pc = "select" =>
    /\ spotify.paused =>
         /\ device.state = "paused"
         /\ device.track = spotify.currentTrack
    /\ device.state = "playing" =>
         /\ ~spotify.paused
         /\ spotify.currentTrack = device.track

\* ------------------------------------------------------------------------
\* Properties of the key binding table
\* ------------------------------------------------------------------------

\* the commands, those the key-mapping file maps, the keys it gives to a
\* command, and the default keys of a command
Commands == {DefaultKeys[i].command : i \in 1..Len(DefaultKeys)}
Mapped == {keyFunctions[i].Command : i \in 1..Len(keyFunctions)}
FileKeys(c) ==
  {keyFunctions[i].Key :
     i \in {j \in 1..Len(keyFunctions) : keyFunctions[j].Command = c}}
DefaultKeysOf(c) ==
  UNION {{DefaultKeys[i].keys[j] : j \in 1..Len(DefaultKeys[i].keys)} :
           i \in {j \in 1..Len(DefaultKeys) : DefaultKeys[j].command = c}}

\* the keys a command asks for: those of the file, else its default keys
ClaimedKeys(c) == IF c \in Mapped THEN FileKeys(c) ELSE DefaultKeysOf(c)

\* the registrations of keybindings(), in their order: handler, command, view
Registrations == 1..Len(ConfigurationCalls)

\* registration i asks for the pair (view, combination)
Claims(i, v, combination) ==
  /\ ConfigurationCalls[i][3] = v
  /\ \E k \in ClaimedKeys(ConfigurationCalls[i][2]) :
       KeyRunes(k) = combination

\* the table gives key k to command c, in every view c is registered for
BoundTo(c, k) ==
  \A i \in Registrations :
     ConfigurationCalls[i][2] = c =>
       Lookup(ConfigurationCalls[i][3], KeyRunes(k)) =
         ConfigurationCalls[i][1]

\* in no view c is registered for, the table gives key k to command c
NotBoundTo(c, k) ==
  \A i \in Registrations :
     ConfigurationCalls[i][2] = c =>
       Lookup(ConfigurationCalls[i][3], KeyRunes(k)) #
         ConfigurationCalls[i][1]

\* C21, as stated: a command the key-mapping file maps is bound to the
\* keys of the file and its default keys are not bound to it; a command
\* the file does not map is bound to its default keys.
C21_UserKeysOverride ==
  \A c \in Commands :
     IF c \in Mapped
     THEN /\ \A k \in FileKeys(c) : BoundTo(c, k)
          /\ \A k \in DefaultKeysOf(c) \ FileKeys(c) : NotBoundTo(c, k)
     ELSE \A k \in DefaultKeysOf(c) : BoundTo(c, k)

\* C21, amended: the default keys of a command the key-mapping file maps
\* are not bound to it; a command is bound to each key it asks for (those
\* of the file, else its default keys) in each view it is registered for,
\* unless a later registration asks for the same view and key.
C21_UserKeysOverrideUnlessClaimedLater ==
  /\ \A c \in Mapped :
       \A k \in DefaultKeysOf(c) \ FileKeys(c) : NotBoundTo(c, k)
  /\ \A i \in Registrations :
       \A k \in ClaimedKeys(ConfigurationCalls[i][2]) :
          (\A j \in Registrations :
              j > i => ~Claims(j, ConfigurationCalls[i][3], KeyRunes(k)))
            => Lookup(ConfigurationCalls[i][3], KeyRunes(k)) =
                 ConfigurationCalls[i][1]

\* NextTrack has the default key of PauseTrack: p calls nextTrackCommand,
\* the default key of NextTrack has no handler, PauseTrack has no key
C21_Witness ==
  /\ keyFunctions = <<[Key |-> <<"p">>, Command |-> NextTrack]>>
  /\ stroke.key = "p"
  /\ stroke.handlers # << >>
  /\ stroke.handlers[1].handler = "nextTrackCommand"
  /\ Lookup(view, <<">">>) = NoHandler
  /\ ~BoundTo(PauseTrack, <<"p">>)

\* the handler of the last registration that asks for (v, combination)
LastClaim(v, combination) ==
  LET claims == {i \in Registrations : Claims(i, v, combination)}
  IN  IF claims = {} THEN NoHandler
      ELSE ConfigurationCalls[CHOOSE i \in claims :
                                 \A j \in claims : j <= i][1]

\* C22: the handler keyPressed calls for a combination is the one of the
\* last registration that asks for the view and the combination.  With Quit
\* moved to u, u calls queueTrackCommand in the tracks view and
\* queuePlaylistCommand in the playlists view, which are registered for one
\* view after the registrations made for every view, and quit in the queue
\* view.
C22_LaterRegistrationWins ==
  [][HandlerCalled =>
       LET combination == IF stroke'.depth = 1
                          THEN Append(multipleKeysBuffer, stroke'.key)
                          ELSE <<stroke'.key>>
           handler == stroke'.handlers[1].handler
       IN  /\ handler = LastClaim(view, combination)
           /\ (Quit \in Mapped /\ FileKeys(Quit) = {<<"u">>}
                 /\ stroke'.key = "u") =>
                handler = CASE view = VIEW_TRACKS -> "queueTrackCommand"
                            [] view = VIEW_PLAYLISTS -> "queuePlaylistCommand"
                            [] view = VIEW_QUEUE -> "quit"]_vars

\* Quit and QueueTrack both ask for u in the tracks view
C22_Witness ==
  /\ FileKeys(Quit) = {<<"u">>}
  /\ view = VIEW_TRACKS
  /\ stroke.key = "u"
  /\ stroke.handlers # << >>
  /\ stroke.handlers[1].handler = "queueTrackCommand"
  /\ Lookup(VIEW_QUEUE, <<"u">>) = "quit"
  /\ Lookup(VIEW_PLAYLISTS, <<"u">>) = "queuePlaylistCommand"

\* ------------------------------------------------------------------------
\* Properties of the startup
\* ------------------------------------------------------------------------

\* Initialise has the error of initialiseSpotify, or is done with it
Aborted ==
  \/ spotify.pc \in {"failed", "returned"}
  \/ spotify.pc = "send" /\ spotify.send.next = "return"

\* C23: a login wait that receives the timeout returns failure, without
\* another wait; the steps initKey, initCache, initSession, login, the login
\* wait and finishInitialisation follow one another, and a step that fails
\* goes to the return of the error; Initialise then publishes Shutdown and
\* returns, and neither a later step nor waitForEvents is entered.
C23_StartupAborts ==
  [][/\ (spotify.pc = "wait" /\ timer = "blocked" /\ timer' # timer) =>
          /\ timer' = "done"
          /\ spotify' = Failed(CouldNotLogin)
     /\ \A i \in 1..Len(StartupSteps) :
          (spotify.pc = StartupSteps[i] /\ spotify' # spotify) =>
            \/ spotify' = [spotify EXCEPT !.pc = StepAfter(StartupSteps[i])]
            \/ spotify'.pc = "failed" /\ spotify'.err # "nil"
     /\ (spotify.pc = "wait" /\ spotify' # spotify) =>
          \/ spotify' = [spotify EXCEPT !.pc = "finish"]
          \/ spotify' = Failed(CouldNotLogin)
     /\ (spotify.pc = "finish" /\ spotify' # spotify) =>
          \/ spotify'.pc = "send" /\ spotify'.send.ch = "playlists"
          \/ spotify'.pc = "failed" /\ spotify'.err # "nil"
     /\ (spotify.pc = "failed" /\ spotify' # spotify) =>
          spotify' = BackendSending("shutdown", TRUE, "return")
     /\ Aborted =>
          /\ Aborted'
          /\ spotify'.err = spotify.err
          /\ spotify'.pc = "returned" =>
               \/ spotify.pc = "returned"
               \/ bus'["shutdown"] = Append(bus["shutdown"], TRUE)
          /\ UNCHANGED <<device, process>>]_vars

\* the login wait took the timeout, Initialise has published Shutdown and
\* returned, and StartConsoleUserInterface has returned
C23_Witness ==
  /\ spotify.pc = "returned"
  /\ spotify.err = CouldNotLogin
  /\ timer = "done"
  /\ main.pc = "quit"

\* StartConsoleUserInterface has returned, or the process has ended
UiReturned == main.pc = "quit" \/ process # "running"

\* C28: the timer goroutine of the login wait ends: once it is started its
\* send on the timeout channel is received, whichever case the select of
\* the login wait takes, as long as the user interface and the process
\* run.
C28_TimerTerminates == (timer = "sleeping") ~> (timer = "done" \/ UiReturned)

====
